---- MODULE Spec2Model ----
(***************************************************************************)
(* Model of the GameTranslate pipeline: the single-slot LatestQueue, the   *)
(* TextStabilizer, the coordinator loop MainApp.run_engine with the audio  *)
(* device, the capture and OCR threads of AIEngine, AIEngine.translate,    *)
(* and the four worker threads of main.py.                                 *)
(*                                                                         *)
(* A text is a sequence of one-character strings.  NoText stands for       *)
(* Python's None where a text or None is returned.                         *)
(***************************************************************************)
EXTENDS Integers, Sequences, FiniteSets, TLC

VARIABLES
    \* ---- LatestQueue with one producer and one consumer ----
    queue,          \* the items held by the Queue, oldest first
    ppc,            \* producer position inside put_latest
    pitem,          \* the item the running put_latest call was given
    nput,           \* number of put_latest calls started so far
    lastPut,        \* item of the last put_latest call that returned (0: none)
    putsSinceGet,   \* put_latest calls returned since the consumer's last get
    got,            \* result of the consumer's last get (0: Empty was raised)
    delivered,      \* every item the consumer obtained, in order
    swallowed,      \* the running put_latest caught Empty from get_nowait
    \* ---- TextStabilizer ----
    window,         \* TextStabilizer.queue, oldest first
    ret,            \* value returned by the last push
    pushed,         \* argument of the last push
    runLen,         \* length of the current run of identical valid pushes
    runEmits,       \* pushes of the current run that returned a phrase
    runFresh,       \* TRUE iff the window was empty when the run began
    \* ---- MainApp.run_engine, cfg, AIEngine.translate, AudioPlayer ----
    epc,            \* position of the engine thread inside run_engine
    cfgWidth,       \* cfg.data["monitor"]["width"] (0: no region selected)
    cfgTranslate,   \* cfg.data["translate"]
    raw_text,       \* raw_text of the current cycle
    stable_text,    \* stable_text of the current cycle
    last_stable_text, \* last_stable_text of run_engine
    last_hash,      \* AIEngine.last_hash
    res,            \* res['text'] as last assigned by run_engine
    resFor,         \* the text ai.translate was given when it returned res
    playing,        \* the buffers sounddevice is playing, oldest first
    calls,          \* collaborator calls of the current cycle, in order
    arrivedLast,    \* last_stable_text when stable_text arrived
    decision,       \* what the cycle did with stable_text
    halted,         \* audio.stop() of this cycle cut a playing text
    xlate,          \* how ai.translate ended in this cycle
    lastOutcome,    \* xlate of the cycle that last set last_stable_text
    events,         \* signals emitted by the current cycle, in order
    initFailed,     \* a constructor raised at the head of run_engine
    looped,         \* the while loop of run_engine was entered
    raisedFor,      \* the stable_text whose ai.translate call raised last
    cfgAtTop,       \* cfg.data["translate"] when the cycle read "monitor"
    \* ---- AIEngine capture thread and OCR thread ----
    running,        \* AIEngine.running is set
    cpc,            \* position of the capture thread inside _capture_loop
    frame,          \* frame of _capture_loop
    prev_small,     \* prev_small of _capture_loop
    frame_queue,    \* AIEngine.frame_queue, oldest first
    forwarded,      \* the frame last handed to frame_queue.put_latest
    opc,            \* position of the OCR thread inside _ocr_loop
    otext,          \* text of _ocr_loop
    text_queue,     \* AIEngine.text_queue, oldest first
    ocrRaised,      \* recognize raised inside _ocr_loop
    captureAlive,   \* threads running _capture_loop that are alive
    ocrAlive,       \* threads running _ocr_loop that are alive
    \* ---- a client of AIEngine.translate and AIEngine.abort ----
    tpc,            \* "running" while a translate call is in progress
    targ,           \* the text that call was given
    cancelReq,      \* abort was called while that call was running
    treturned,      \* what the last translate call returned
    tcause,         \* what happened in the last translate call
    seen,           \* <<what happened, what was returned>> of all calls
    okArg,          \* the text given to the last call that returned a result
    \* ---- main.py: the four worker threads and the hotkeys ----
    stop_event,     \* stop_event is set
    running_event,  \* running_event is set
    main_frame_queue, \* items in frame_queue of main()
    main_text_queue,  \* items in text_queue of main()
    tts_queue,      \* items in tts_queue of main()
    mcap,           \* position of capture_loop
    sawRunning,     \* running_event as capture_loop last read it
    last_frame,     \* last_frame of capture_loop is not None
    mocr,           \* position of ocr_worker
    mtrans,         \* position of translation_worker
    mtts,           \* position of tts_worker
    mmain,          \* position of main()
    \* ---- run_engine: the status of the previous phrase ----
    clock,          \* what time.time() returns
    spc,            \* position of run_engine inside the accepted branch
    now,            \* now of run_engine
    last_audio_finish_time, \* last_audio_finish_time of run_engine
    last_phrase_duration,   \* last_phrase_duration of run_engine
    voice_duration, \* voice_duration of run_engine
    prev_status,    \* prev_status of run_engine
    recordedAt,     \* time.time() when last_audio_finish_time was last set
    \* ---- AudioPlayer: the voices of the characters ----
    char_map,       \* AudioPlayer.char_map: the voice of each name, if any
    vname,          \* name of the last speak call
    speaker,        \* the voice the last speak call synthesized with
    speaker_name,   \* the second component of what that call returned
    firstVoice      \* the first voice char_map ever held for each name

qvars == <<queue, ppc, pitem, nput, lastPut, putsSinceGet, got, delivered,
          swallowed>>
svars == <<window, ret, pushed, runLen, runEmits, runFresh>>
evars == <<epc, cfgWidth, cfgTranslate, raw_text, stable_text,
           last_stable_text, last_hash, res, resFor, playing, calls,
           arrivedLast, decision, halted, xlate, lastOutcome, events,
           initFailed, looped, raisedFor, cfgAtTop>>
tvars == <<running, cpc, frame, prev_small, frame_queue, forwarded, opc,
           otext, text_queue, ocrRaised, captureAlive, ocrAlive>>
xvars == <<tpc, targ, cancelReq, treturned, tcause, seen, okArg>>
mvars == <<stop_event, running_event, main_frame_queue, main_text_queue,
           tts_queue, mcap, sawRunning, last_frame, mocr, mtrans, mtts,
           mmain>>
pvars == <<clock, spc, now, last_audio_finish_time, last_phrase_duration,
           voice_duration, prev_status, recordedAt>>
avars == <<char_map, vname, speaker, speaker_name, firstVoice>>
rest  == <<tvars, xvars, mvars, pvars, avars>>
vars  == <<qvars, svars, evars, rest>>

NoText == <<"None">>

----------------------------------------------------------------------------
(* Bounds of the model *)

MaxPuts == 4        \* put_latest calls the producer makes
MaxRun  == 5        \* longest run of identical pushes that is counted

----------------------------------------------------------------------------
(* Text helpers: str.strip and difflib.SequenceMatcher.ratio *)

RECURSIVE LStrip(_)
LStrip(s) == IF s # <<>> /\ Head(s) = " " THEN LStrip(Tail(s)) ELSE s

RECURSIVE RStrip(_)
RStrip(s) ==
    IF s # <<>> /\ s[Len(s)] = " " THEN RStrip(SubSeq(s, 1, Len(s) - 1)) ELSE s

Strip(s) == RStrip(LStrip(s))

\* Length of the longest common run of a[i..ahi) and b[j..bhi), 0-based.
RECURSIVE CommonLen(_, _, _, _, _, _)
CommonLen(a, b, i, j, ahi, bhi) ==
    IF i < ahi /\ j < bhi /\ a[i + 1] = b[j + 1]
    THEN 1 + CommonLen(a, b, i + 1, j + 1, ahi, bhi)
    ELSE 0

\* SequenceMatcher.find_longest_match: the longest block, of those the one
\* starting earliest in a, of those the one starting earliest in b.
FindLongestMatch(a, b, alo, ahi, blo, bhi) ==
    LET cands == {<<i, j, CommonLen(a, b, i, j, ahi, bhi)>> :
                      i \in alo..(ahi - 1), j \in blo..(bhi - 1)}
    IN  CHOOSE c \in cands :
            \A d \in cands :
                \/ c[3] > d[3]
                \/ /\ c[3] = d[3]
                   /\ \/ c[1] < d[1]
                      \/ c[1] = d[1] /\ c[2] <= d[2]

\* Sum of the sizes of SequenceMatcher.get_matching_blocks.
RECURSIVE MatchCount(_, _, _, _, _, _)
MatchCount(a, b, alo, ahi, blo, bhi) ==
    IF alo >= ahi \/ blo >= bhi THEN 0
    ELSE LET m == FindLongestMatch(a, b, alo, ahi, blo, bhi)
             i == m[1]
             j == m[2]
             k == m[3]
         IN  IF k = 0 THEN 0
             ELSE k + MatchCount(a, b, alo, i, blo, j)
                    + MatchCount(a, b, i + k, ahi, j + k, bhi)

Matches(a, b) == MatchCount(a, b, 0, Len(a), 0, Len(b))

\* SequenceMatcher(None, a, b).ratio() >= pct / 100
\* (ratio is 2.0 * matches / (len(a) + len(b)), and 1.0 for two empty texts)
RatioAtLeast(a, b, pct) ==
    IF Len(a) + Len(b) = 0 THEN TRUE
    ELSE 200 * Matches(a, b) >= pct * (Len(a) + Len(b))

\* SequenceMatcher(None, a, b).ratio() < pct / 100
RatioBelow(a, b, pct) == ~RatioAtLeast(a, b, pct)

----------------------------------------------------------------------------
(* LatestQueue: queue.Queue(maxsize=1) with put_latest *)

Maxsize == 1

\* Queue.put(block=False) raises Full exactly when the queue is at maxsize.
FullNever(q) == FALSE
FullOffByOne(q) == Len(q) > Maxsize
Full(q) == Len(q) >= Maxsize

\* Queue._get: the oldest item leaves the queue.
KeepHead(q) == q
Dequeue(q) == Tail(q)

\* get_nowait inside put_latest: removes the old item, or Empty is swallowed.
KeepOld(q) == q
EvictOne(q) == IF q = <<>> THEN q ELSE Dequeue(q)

InitQueue ==
    /\ queue = <<>>
    /\ ppc = "idle"
    /\ pitem = 0
    /\ nput = 0
    /\ lastPut = 0
    /\ putsSinceGet = 0
    /\ got = 0
    /\ delivered = <<>>
    /\ swallowed = FALSE

\* The producer calls put_latest(item); items are numbered in call order.
PutLatestCall ==
    /\ ppc = "idle"
    /\ nput < MaxPuts
    /\ nput' = nput + 1
    /\ pitem' = nput + 1
    /\ ppc' = "put"
    /\ swallowed' = FALSE
    /\ UNCHANGED <<queue, lastPut, putsSinceGet, got, delivered>>

\* self.put(item, block=False): stores and returns, or raises Full.
PutFirst ==
    /\ ppc = "put"
    /\ IF Full(queue)
       THEN /\ ppc' = "evict"
            /\ UNCHANGED <<queue, lastPut, putsSinceGet>>
       ELSE /\ queue' = Append(queue, pitem)
            /\ ppc' = "idle"
            /\ lastPut' = pitem
            /\ putsSinceGet' = putsSinceGet + 1
    /\ UNCHANGED <<pitem, nput, got, delivered, swallowed>>

\* except Full: _ = self.get_nowait(), except Empty: pass
PutEvict ==
    /\ ppc = "evict"
    /\ queue' = EvictOne(queue)
    /\ ppc' = "reput"
    /\ swallowed' = (queue = <<>>)
    /\ UNCHANGED <<pitem, nput, lastPut, putsSinceGet, got, delivered>>

\* the second self.put(item, block=False); a Full here reaches the caller.
PutSecond ==
    /\ ppc = "reput"
    /\ IF Full(queue)
       THEN /\ ppc' = "raised"
            /\ UNCHANGED <<queue, lastPut, putsSinceGet>>
       ELSE /\ queue' = Append(queue, pitem)
            /\ ppc' = "idle"
            /\ lastPut' = pitem
            /\ putsSinceGet' = putsSinceGet + 1
    /\ UNCHANGED <<pitem, nput, got, delivered, swallowed>>

\* The consumer's get(timeout) returns the oldest item.
ConsumerGet ==
    /\ queue # <<>>
    /\ got' = Head(queue)
    /\ delivered' = Append(delivered, Head(queue))
    /\ queue' = Dequeue(queue)
    /\ putsSinceGet' = 0
    /\ UNCHANGED <<ppc, pitem, nput, lastPut, swallowed>>

\* The consumer's get(timeout) finds nothing and raises Empty.
ConsumerEmpty ==
    /\ queue = <<>>
    /\ got' = 0
    /\ UNCHANGED <<queue, ppc, pitem, nput, lastPut, putsSinceGet, delivered,
                   swallowed>>

----------------------------------------------------------------------------
(* TextStabilizer *)

History == 3        \* TextStabilizer(history=3, ...)
StabPct == 85       \* TextStabilizer(..., threshold=0.85), in hundredths
MinLen  == 2        \* len(clean_text) < 2 is rejected

\* Texts the recognizer hands to push; the stripped ones are T_abc, T_abcd,
\* T_bcd, with ratio(T_abcd, T_abc) = ratio(T_abcd, T_bcd) = 6/7 and
\* ratio(T_abc, T_bcd) = 4/6.
T_abc  == <<"a", "b", "c">>
T_abcd == <<"a", "b", "c", "d">>
T_bcd  == <<"b", "c", "d">>
RawTexts ==
    { T_abc, T_abcd, T_bcd,
      <<" ", "a", "b", "c", " ">>,
      <<" ", "a">>,
      <<" ", " ">>,
      <<>> }

\* not clean_text or len(clean_text) < 2
Rejected(clean) == clean = <<>> \/ Len(clean) < MinLen

\* deque(maxlen=history).append: the oldest entry leaves a full deque.
AppendUnbounded(w, x) == Append(w, x)
AppendBounded(w, x) ==
    IF Len(w) >= History THEN Append(Tail(w), x) ELSE Append(w, x)

\* the for loop of push: last_item against every item of the deque
IsStableOldestOnly(w) == ~RatioBelow(w[Len(w)], w[1], StabPct)
IsStable(w) == \A i \in 1..Len(w) : ~RatioBelow(w[Len(w)], w[i], StabPct)

\* what push returns once the text is in the deque
PushResultNoFillCheck(w) == IF IsStable(w) THEN w[Len(w)] ELSE NoText
PushResultOffByOne(w) ==
    IF Len(w) <= History THEN NoText
    ELSE IF IsStable(w) THEN w[Len(w)] ELSE NoText
PushResult(w) ==
    IF Len(w) < History THEN NoText
    ELSE IF IsStable(w) THEN w[Len(w)] ELSE NoText

\* TextStabilizer.push(text): <<deque afterwards, value returned>>
PushOutcome(w, text) ==
    LET clean == Strip(text)
    IN  IF Rejected(clean) THEN <<w, NoText>>
        ELSE <<AppendBounded(w, clean), PushResult(AppendBounded(w, clean))>>

InitStab ==
    /\ window = <<>>
    /\ ret = NoText
    /\ pushed = NoText
    /\ runLen = 0
    /\ runEmits = 0
    /\ runFresh = FALSE

\* One call of push; runLen, runEmits, runFresh observe runs of one text.
Push(text) ==
    LET out   == PushOutcome(window, text)
        valid == ~Rejected(Strip(text))
        same  == valid /\ text = pushed
        emit  == IF out[2] # NoText THEN 1 ELSE 0
    IN  /\ same => runLen < MaxRun
        /\ window' = out[1]
        /\ ret' = out[2]
        /\ pushed' = text
        /\ runLen' = IF ~valid THEN 0 ELSE IF same THEN runLen + 1 ELSE 1
        /\ runEmits' = IF ~valid THEN 0
                       ELSE IF same THEN runEmits + emit ELSE emit
        /\ runFresh' = IF same THEN runFresh ELSE valid /\ window = <<>>

PushAny == \E text \in RawTexts : Push(text)

----------------------------------------------------------------------------
(* AIEngine.recognize and AIEngine.translate *)

NewPct == 85        \* run_engine: similarity < 0.85 is a new phrase
DupPct == 95        \* AIEngine.translate: ratio > 0.95 is a duplicate

\* Characters: "ya", "YA", "yo", "YO" stand for the letters U+044F, U+042F,
\* U+0451, U+0401; the others are Latin letters and the space.
Lower(ch) ==
    CASE ch = "A" -> "a"
      [] ch = "B" -> "b"
      [] ch = "C" -> "c"
      [] ch = "YA" -> "ya"
      [] ch = "YO" -> "yo"
      [] OTHER -> ch

LowerText(s) == [i \in 1..Len(s) |-> Lower(s[i])]

\* SequenceMatcher(None, a, b).ratio() > pct / 100
RatioAbove(a, b, pct) ==
    IF Len(a) + Len(b) = 0 THEN pct < 100
    ELSE 200 * Matches(a, b) > pct * (Len(a) + Len(b))

\* " ".join(text.split())
RECURSIVE SquashSpaces(_)
SquashSpaces(s) ==
    IF Len(s) < 2 THEN s
    ELSE IF s[1] = " " /\ s[2] = " " THEN SquashSpaces(Tail(s))
    ELSE <<s[1]>> \o SquashSpaces(Tail(s))

NormalizeSpaces(s) == Strip(SquashSpaces(s))

\* AIEngine.recognize, given what ocr_engine.run returned
Recognize(ocrText) ==
    IF Len(NormalizeSpaces(ocrText)) < MinLen THEN NoText
    ELSE NormalizeSpaces(ocrText)

\* any("а" <= ch.lower() <= "я" or ch == "ё" for ch in res.text)
HasRussianLetter(s) ==
    \E i \in 1..Len(s) : Lower(s[i]) = "ya" \/ s[i] = "yo"

\* re.search(r'[а-яА-ЯёЁ]', text)
HasCyrillic(s) == \E i \in 1..Len(s) : s[i] \in {"ya", "YA", "yo", "YO"}

\* What CT2Translator.translate hands back: None, or a result whose text is
\* empty, Latin only, or Russian; "raise" is an exception out of the call.
T_ru == <<"ya">>
MtOutcomes == { NoText, <<>>, <<"x">>, T_ru }

\* the deduplication of AIEngine.translate against last_hash
IsHashDuplicate(norm, lastHash) == RatioAbove(norm, lastHash, DupPct)

\* AIEngine.translate(text) when the translator would return mt:
\* <<text of the result or NoText, last_hash afterwards, translator called>>
TranslateOutcomeEagerHash(text, lastHash, mt) ==
    LET cleaned == Strip(text)
        norm    == LowerText(cleaned)
    IN  IF Len(cleaned) < MinLen THEN <<NoText, lastHash, FALSE>>
        ELSE IF IsHashDuplicate(norm, lastHash) THEN <<NoText, lastHash, FALSE>>
        ELSE IF mt = NoText \/ mt = <<>> THEN <<NoText, norm, TRUE>>
        ELSE IF ~HasRussianLetter(mt) THEN <<NoText, norm, TRUE>>
        ELSE <<mt, norm, TRUE>>
TranslateOutcome(text, lastHash, mt) ==
    LET cleaned == Strip(text)
        norm    == LowerText(cleaned)
    IN  IF Len(cleaned) < MinLen THEN <<NoText, lastHash, FALSE>>
        ELSE IF IsHashDuplicate(norm, lastHash) THEN <<NoText, lastHash, FALSE>>
        ELSE IF mt = NoText \/ mt = <<>> THEN <<NoText, lastHash, TRUE>>
        ELSE IF ~HasRussianLetter(mt) THEN <<NoText, lastHash, TRUE>>
        ELSE <<mt, norm, TRUE>>

----------------------------------------------------------------------------
(* AudioPlayer.speak and AudioPlayer.stop *)

\* AudioPlayer.stop(): sd.stop() ends every playback of the device.  The
\* device is the sequence of the buffers it is playing; sd.play adds a
\* buffer and is not relied on to end the others.
StopNothing(streams) == streams
StopAll(streams) == <<>>

\* How the try block of speak can end: the buffer was handed to sd.play,
\* apply_tts raised (before self.stop()), or sd.play raised (after it).
TtsOutcomes == { "played", "tts_error", "play_error" }

\* AudioPlayer.speak(text, ...): the buffers playing afterwards, given the
\* buffers playing before.
SpeakOutcome(text, before, tts) ==
    IF text = <<>> \/ text = NoText THEN before
    ELSE IF ~HasCyrillic(text) THEN before
    ELSE IF tts = "tts_error" THEN before
    ELSE IF tts = "play_error" THEN StopAll(before)
    ELSE Append(StopAll(before), text)

----------------------------------------------------------------------------
(* MainApp.run_engine: the coordinator loop *)

\* What ocr_engine.run returns for the frames of the model.
EmptyOcrTexts == { <<>>, <<" ">> }
OcrTexts == { T_abc, T_abcd, T_bcd, <<" ">>, <<" ", "a", " ">> }

InitEngine ==
    /\ epc = "init"
    /\ cfgWidth = 0
    /\ cfgTranslate = TRUE
    /\ raw_text = NoText
    /\ stable_text = NoText
    /\ last_stable_text = <<>>
    /\ last_hash = <<>>
    /\ res = NoText
    /\ resFor = NoText
    /\ playing = <<>>
    /\ calls = <<>>
    /\ arrivedLast = <<>>
    /\ decision = "none"
    /\ halted = FALSE
    /\ xlate = "none"
    /\ lastOutcome = "none"
    /\ events = <<>>
    /\ initFailed = FALSE
    /\ looped = FALSE
    /\ raisedFor = NoText
    /\ cfgAtTop = TRUE

\* except Exception as e: log "FATAL ERROR"; return
AfterInitFailureContinue == "top"
AfterInitFailure == "fatal"

\* if raw_text:
IsTextAlways(t) == TRUE
IsText(t) == t # NoText /\ t # <<>>

\* similarity < 0.85: the phrase is new
IsNewPhraseAlways(st, last) == TRUE
IsNewPhrase(st, last) == RatioBelow(st, last, NewPct)

\* where a cycle goes once it found a new phrase: audio.stop(), ai.abort()
AfterAcceptNoStop == "mode"
AfterAccept == "stop"

\* if res and res['text']:
HasResultAlways(r) == TRUE
HasResult(r) == r # NoText /\ r # <<>>

\* an exception out of ai.translate: except Exception: log "Error loop"
AfterTranslateRaiseSpeak == "speak"
AfterTranslateRaise == "top"

\* the try block at the head of run_engine: ScreenCap(), AIEngine(...),
\* AudioPlayer(), TextStabilizer(...); a constructor that raises (no OCR
\* engine, no translation model, no TTS model) is reported and ends the thread
EngineInit ==
    /\ epc = "init"
    /\ \E ok \in BOOLEAN :
          IF ok
          THEN /\ epc' = "top"
               /\ UNCHANGED <<initFailed, events>>
          ELSE /\ epc' = AfterInitFailure
               /\ initFailed' = TRUE
               /\ events' = <<"fatal">>
    /\ UNCHANGED <<cfgWidth, cfgTranslate, raw_text, stable_text,
                   last_stable_text, last_hash, res, resFor, playing, calls,
                   arrivedLast, decision, halted, xlate, lastOutcome, looped,
                   raisedFor, cfgAtTop>>
    /\ UNCHANGED svars

\* while self.running: rect = cfg.get("monitor"); width 0: sleep, continue
EngineTop ==
    /\ epc = "top"
    /\ epc' = IF cfgWidth = 0 THEN "top" ELSE "grab"
    /\ raw_text' = NoText
    /\ stable_text' = NoText
    /\ calls' = <<>>
    /\ decision' = "none"
    /\ halted' = FALSE
    /\ xlate' = "none"
    /\ events' = <<>>
    /\ looped' = TRUE
    /\ cfgAtTop' = cfgTranslate
    /\ UNCHANGED <<cfgWidth, cfgTranslate, last_stable_text, last_hash, res,
                   resFor, playing, arrivedLast, lastOutcome, initFailed,
                   raisedFor>>
    /\ UNCHANGED svars

\* img = cap.grab(rect); None: sleep, continue
EngineGrab ==
    /\ epc = "grab"
    /\ \E img \in BOOLEAN : epc' = IF img THEN "ocr" ELSE "top"
    /\ UNCHANGED <<cfgWidth, cfgTranslate, raw_text, stable_text,
                   last_stable_text, last_hash, res, resFor, playing, calls,
                   arrivedLast, decision, halted, xlate, lastOutcome, events,
                   initFailed, looped, raisedFor, cfgAtTop>>
    /\ UNCHANGED svars

\* raw_text = ai.recognize(img); an exception of the OCR engine is caught by
\* the except of the loop; a falsy raw_text ends the cycle.  The OCR engine
\* is an opaque call that returns a text or raises: WindowsOCREngine.run
\* raises while no event loop is attached (attach_loop is called by
\* AIEngine._ocr_loop only), which is the raised branch here.
Recognized(raised, ocrText) ==
    /\ epc = "ocr"
    /\ IF raised
       THEN /\ epc' = "top"
            /\ events' = Append(events, "error")
            /\ UNCHANGED raw_text
       ELSE /\ raw_text' = Recognize(ocrText)
            /\ epc' = IF IsText(Recognize(ocrText)) THEN "push" ELSE "top"
            /\ UNCHANGED events
    /\ UNCHANGED <<cfgWidth, cfgTranslate, stable_text, last_stable_text,
                   last_hash, res, resFor, playing, calls, arrivedLast,
                   decision, halted, xlate, lastOutcome, initFailed, looped,
                   raisedFor, cfgAtTop>>
    /\ UNCHANGED svars

EngineRecognize ==
    \E raised \in BOOLEAN, ocrText \in OcrTexts : Recognized(raised, ocrText)

\* the same step with an OCR engine that finds no text in any frame
EngineRecognizeEmpty ==
    \E ocrText \in EmptyOcrTexts : Recognized(FALSE, ocrText)

\* stable_text = stab.push(raw_text); if stable_text: similarity against
\* last_stable_text; if similarity < 0.85 the phrase is new
EnginePush ==
    LET out == PushOutcome(window, raw_text)
    IN  /\ epc = "push"
        /\ window' = out[1]
        /\ ret' = out[2]
        /\ pushed' = raw_text
        /\ UNCHANGED <<runLen, runEmits, runFresh>>
        /\ stable_text' = out[2]
        /\ raisedFor' = IF out[2] # NoText /\ out[2] # raisedFor
                        THEN NoText ELSE raisedFor
        /\ IF out[2] = NoText
           THEN /\ epc' = "top"
                /\ UNCHANGED <<arrivedLast, decision>>
           ELSE /\ arrivedLast' = last_stable_text
                /\ IF IsNewPhrase(out[2], last_stable_text)
                   THEN /\ decision' = "accepted"
                        /\ epc' = AfterAccept
                   ELSE /\ decision' = "suppressed"
                        /\ epc' = "top"
        /\ UNCHANGED <<cfgWidth, cfgTranslate, raw_text, last_stable_text,
                       last_hash, res, resFor, playing, calls, halted, xlate,
                       lastOutcome, events, initFailed, looped, cfgAtTop>>
        /\ UNCHANGED qvars

\* audio.stop(): sd.stop()
EngineStop ==
    /\ epc = "stop"
    /\ calls' = Append(calls, "stop")
    /\ halted' = (playing # <<>>)
    /\ playing' = StopAll(playing)
    /\ epc' = "abort"
    /\ UNCHANGED <<cfgWidth, cfgTranslate, raw_text, stable_text,
                   last_stable_text, last_hash, res, resFor, arrivedLast,
                   decision, xlate, lastOutcome, events, initFailed, looped,
                   raisedFor, cfgAtTop>>
    /\ UNCHANGED svars

\* ai.abort(): pass
EngineAbort ==
    /\ epc = "abort"
    /\ calls' = Append(calls, "abort")
    /\ epc' = "mode"
    /\ UNCHANGED <<cfgWidth, cfgTranslate, raw_text, stable_text,
                   last_stable_text, last_hash, res, resFor, playing,
                   arrivedLast, decision, halted, xlate, lastOutcome, events,
                   initFailed, looped, raisedFor, cfgAtTop>>
    /\ UNCHANGED svars

\* if cfg.get("translate"): ... else: read the original aloud
EngineMode ==
    /\ epc = "mode"
    /\ epc' = IF cfgTranslate THEN "translate" ELSE "speakorig"
    /\ UNCHANGED <<cfgWidth, cfgTranslate, raw_text, stable_text,
                   last_stable_text, last_hash, res, resFor, playing, calls,
                   arrivedLast, decision, halted, xlate, lastOutcome, events,
                   initFailed, looped, raisedFor, cfgAtTop>>
    /\ UNCHANGED svars

\* res = ai.translate(stable_text); an exception of the translator leaves
\* the cycle through the except of the loop; if res and res['text']: speak
EngineTranslate ==
    /\ epc = "translate"
    /\ \E raised \in BOOLEAN, mt \in MtOutcomes :
          LET out == TranslateOutcome(stable_text, last_hash, mt)
          IN  IF raised /\ out[3]
              THEN /\ calls' = calls \o <<"translate", "mt">>
                   /\ epc' = AfterTranslateRaise
                   /\ xlate' = "raised"
                   /\ events' = Append(events, "error")
                   /\ raisedFor' = stable_text
                   /\ UNCHANGED <<res, resFor, last_hash>>
              ELSE /\ calls' = calls \o (IF out[3] THEN <<"translate", "mt">>
                                         ELSE <<"translate">>)
                   /\ res' = out[1]
                   /\ resFor' = stable_text
                   /\ last_hash' = out[2]
                   /\ xlate' = IF out[1] # NoText /\ out[1] # <<>>
                               THEN "result" ELSE "noresult"
                   /\ epc' = IF HasResult(out[1]) THEN "speak" ELSE "update"
                   /\ UNCHANGED <<events, raisedFor>>
    /\ UNCHANGED <<cfgWidth, cfgTranslate, raw_text, stable_text,
                   last_stable_text, playing, arrivedLast, decision, halted,
                   lastOutcome, initFailed, looped, cfgAtTop>>
    /\ UNCHANGED svars

\* self.signals.subtitle.emit(res['name'], res['text']);
\* voice_duration, speaker_name = audio.speak(res['text'], ...)
EngineSpeak ==
    /\ epc = "speak"
    /\ calls' = Append(calls, "speak")
    /\ events' = Append(events, "subtitle")
    /\ \E tts \in TtsOutcomes : playing' = SpeakOutcome(res, playing, tts)
    /\ epc' = "update"
    /\ UNCHANGED <<cfgWidth, cfgTranslate, raw_text, stable_text,
                   last_stable_text, last_hash, res, resFor, arrivedLast,
                   decision, halted, xlate, lastOutcome, initFailed, looped,
                   raisedFor, cfgAtTop>>
    /\ UNCHANGED svars

\* self.signals.subtitle.emit("", stable_text);
\* voice_duration, speaker_name = audio.speak(stable_text, "", "m")
EngineSpeakOriginal ==
    /\ epc = "speakorig"
    /\ calls' = Append(calls, "speak")
    /\ events' = Append(events, "subtitle")
    /\ \E tts \in TtsOutcomes :
          playing' = SpeakOutcome(stable_text, playing, tts)
    /\ epc' = "update"
    /\ UNCHANGED <<cfgWidth, cfgTranslate, raw_text, stable_text,
                   last_stable_text, last_hash, res, resFor, arrivedLast,
                   decision, halted, xlate, lastOutcome, initFailed, looped,
                   raisedFor, cfgAtTop>>
    /\ UNCHANGED svars

\* self.signals.log.emit(log_block), then last_stable_text = stable_text
EngineUpdate ==
    /\ epc = "update"
    /\ events' = Append(events, "log_block")
    /\ last_stable_text' = stable_text
    /\ lastOutcome' = IF xlate = "none" THEN "original" ELSE xlate
    /\ raisedFor' = NoText
    /\ epc' = "top"
    /\ UNCHANGED <<cfgWidth, cfgTranslate, raw_text, stable_text, last_hash,
                   res, resFor, playing, calls, arrivedLast, decision, halted,
                   xlate, initFailed, looped, cfgAtTop>>
    /\ UNCHANGED svars

\* a playback started by sd.play runs out
AudioFinish ==
    /\ \E i \in 1..Len(playing) :
          playing' = [j \in 1..(Len(playing) - 1) |->
                          IF j < i THEN playing[j] ELSE playing[j + 1]]
    /\ UNCHANGED <<epc, cfgWidth, cfgTranslate, raw_text, stable_text,
                   last_stable_text, last_hash, res, resFor, calls,
                   arrivedLast, decision, halted, xlate, lastOutcome, events,
                   initFailed, looped, raisedFor, cfgAtTop>>
    /\ UNCHANGED svars

\* UI thread: Sniper hands a region to on_snip_finished: cfg.set("monitor", .)
SetMonitor ==
    /\ cfgWidth' = 1
    /\ UNCHANGED <<epc, cfgTranslate, raw_text, stable_text, last_stable_text,
                   last_hash, res, resFor, playing, calls, arrivedLast,
                   decision, halted, xlate, lastOutcome, events, initFailed,
                   looped, raisedFor, cfgAtTop>>
    /\ UNCHANGED svars

\* UI thread: HUD.toggle_mode: update_cfg("translate", checked)
SetTranslate ==
    /\ \E checked \in BOOLEAN : cfgTranslate' = checked
    /\ UNCHANGED <<epc, cfgWidth, raw_text, stable_text, last_stable_text,
                   last_hash, res, resFor, playing, calls, arrivedLast,
                   decision, halted, xlate, lastOutcome, events, initFailed,
                   looped, raisedFor, cfgAtTop>>
    /\ UNCHANGED svars

----------------------------------------------------------------------------
(* AIEngine: the capture thread and the OCR thread *)

DiffThreshold == 3      \* cfg "frame_diff_threshold"

\* A frame is a row of four grey pixels; no frame is Python's None.
NoFrame == <<>>
F_a == <<10, 10, 10, 10>>
F_b == <<12, 12, 13, 13>>
F_c == <<13, 13, 13, 13>>
Frames == { F_a, F_b, F_c }

\* cv2.resize(frame, fx, fy) and cv2.cvtColor(small, COLOR_BGR2GRAY): the
\* smaller grey image, here each pair of pixels averaged into one.
Small(f) == [i \in 1..(Len(f) \div 2) |-> (f[2 * i - 1] + f[2 * i]) \div 2]

Abs(n) == IF n < 0 THEN -n ELSE n

RECURSIVE SumAbsDiff(_, _)
SumAbsDiff(a, b) ==
    IF a = <<>> THEN 0
    ELSE Abs(a[1] - b[1]) + SumAbsDiff(Tail(a), Tail(b))

\* float(np.mean(cv2.absdiff(gray, prev_small))) < diff_threshold
MeanDiffBelow(gray, prev, thr) == SumAbsDiff(gray, prev) < thr * Len(gray)

\* the change gate of _capture_loop: the frame is dropped
DropsAtThreshold(gray, prev) ==
    prev # NoFrame /\ SumAbsDiff(gray, prev) <= DiffThreshold * Len(gray)
Drops(gray, prev) == prev # NoFrame /\ MeanDiffBelow(gray, prev, DiffThreshold)

\* LatestQueue.put_latest as one step: the queue once the call has returned
PutLatest(q, item) ==
    IF Full(q) THEN Append(EvictOne(q), item) ELSE Append(q, item)

\* What ocr_engine.run returns for the frames of the OCR thread.
ThreadOcrTexts == { T_abc, <<" ">> }

InitThreads ==
    /\ running = TRUE
    /\ cpc = "none"
    /\ frame = NoFrame
    /\ prev_small = NoFrame
    /\ frame_queue = <<>>
    /\ forwarded = NoFrame
    /\ opc = "none"
    /\ otext = NoText
    /\ text_queue = <<>>
    /\ ocrRaised = FALSE
    /\ captureAlive = 0
    /\ ocrAlive = 0

\* self.capture_thread and self.capture_thread.is_alive(), likewise for
\* ocr_thread, given the position of the thread the attribute refers to: a
\* thread is alive from start() until its loop function has ended
IsAliveNever(pc) == FALSE
IsAlive(pc) == pc \notin {"none", "exit", "crashed"}

\* start_capture: a live thread is kept, else a new thread enters
\* _capture_loop, where prev_small = None
StartCapture ==
    /\ IF IsAlive(cpc)
       THEN UNCHANGED <<cpc, prev_small, forwarded, frame, captureAlive>>
       ELSE /\ cpc' = "loop"
            /\ prev_small' = NoFrame
            /\ forwarded' = NoFrame
            /\ frame' = NoFrame
            /\ captureAlive' = captureAlive + 1
    /\ UNCHANGED <<running, frame_queue, opc, otext, text_queue, ocrRaised,
                   ocrAlive>>

\* while self.running.is_set():
CaptureLoop ==
    /\ cpc = "loop"
    /\ cpc' = IF running THEN "capture" ELSE "exit"
    /\ captureAlive' = IF running THEN captureAlive ELSE captureAlive - 1
    /\ UNCHANGED <<running, frame, prev_small, frame_queue, forwarded, opc,
                   otext, text_queue, ocrRaised, ocrAlive>>

\* frame = capture_func(); if frame is None: continue
CaptureFrame ==
    /\ cpc = "capture"
    /\ \E f \in Frames \cup {NoFrame} :
          /\ frame' = f
          /\ cpc' = IF f = NoFrame THEN "loop" ELSE "gate"
    /\ UNCHANGED <<running, prev_small, frame_queue, forwarded, opc, otext,
                   text_queue, ocrRaised, captureAlive, ocrAlive>>

\* small, gray; if prev_small is not None and mean_diff < diff_threshold:
\* sleep, continue; prev_small = gray
CaptureGate ==
    /\ cpc = "gate"
    /\ IF Drops(Small(frame), prev_small)
       THEN /\ cpc' = "sleep"
            /\ UNCHANGED prev_small
       ELSE /\ prev_small' = Small(frame)
            /\ cpc' = "put"
    /\ UNCHANGED <<running, frame, frame_queue, forwarded, opc, otext,
                   text_queue, ocrRaised, captureAlive, ocrAlive>>

\* self.frame_queue.put_latest(frame)
CapturePut ==
    /\ cpc = "put"
    /\ frame_queue' = PutLatest(frame_queue, frame)
    /\ forwarded' = frame
    /\ cpc' = "sleep"
    /\ UNCHANGED <<running, frame, prev_small, opc, otext, text_queue,
                   ocrRaised, captureAlive, ocrAlive>>

\* time.sleep(delay)
CaptureSleep ==
    /\ cpc = "sleep"
    /\ cpc' = "loop"
    /\ UNCHANGED <<running, frame, prev_small, frame_queue, forwarded, opc,
                   otext, text_queue, ocrRaised, captureAlive, ocrAlive>>

\* start_ocr: a live thread is kept, else a new thread enters _ocr_loop
StartOcr ==
    /\ IF IsAlive(opc)
       THEN UNCHANGED <<opc, otext, ocrAlive>>
       ELSE /\ opc' = "loop"
            /\ otext' = NoText
            /\ ocrAlive' = ocrAlive + 1
    /\ UNCHANGED <<running, cpc, frame, prev_small, frame_queue, forwarded,
                   text_queue, ocrRaised, captureAlive>>

\* while self.running.is_set():
OcrLoop ==
    /\ opc = "loop"
    /\ opc' = IF running THEN "get" ELSE "exit"
    /\ ocrAlive' = IF running THEN ocrAlive ELSE ocrAlive - 1
    /\ UNCHANGED <<running, cpc, frame, prev_small, frame_queue, forwarded,
                   otext, text_queue, ocrRaised, captureAlive>>

\* where _ocr_loop goes when get(timeout=0.05) finds the queue empty for the
\* whole timeout: except Empty: continue
AfterEmptyGetBlocks == "get"
AfterEmptyGet == "loop"

\* frame = self.frame_queue.get(timeout=0.05); except Empty: continue
OcrGet ==
    /\ opc = "get"
    /\ IF frame_queue = <<>>
       THEN /\ opc' = AfterEmptyGet
            /\ UNCHANGED frame_queue
       ELSE /\ opc' = "ocr"
            /\ frame_queue' = Dequeue(frame_queue)
    /\ UNCHANGED <<running, cpc, frame, prev_small, forwarded, otext,
                   text_queue, ocrRaised, captureAlive, ocrAlive>>

\* text = self.recognize(frame), outside any try block: an exception of the
\* OCR engine leaves _ocr_loop and ends the thread; if not text: continue
OcrRecognized(raised, ocrText) ==
    /\ opc = "ocr"
    /\ IF raised
       THEN /\ opc' = "crashed"
            /\ ocrRaised' = TRUE
            /\ ocrAlive' = ocrAlive - 1
            /\ UNCHANGED otext
       ELSE /\ otext' = Recognize(ocrText)
            /\ opc' = IF IsText(Recognize(ocrText)) THEN "push" ELSE "loop"
            /\ UNCHANGED <<ocrRaised, ocrAlive>>
    /\ UNCHANGED <<running, cpc, frame, prev_small, frame_queue, forwarded,
                   text_queue, captureAlive>>

OcrRecognize ==
    \E raised \in BOOLEAN, ocrText \in ThreadOcrTexts :
        OcrRecognized(raised, ocrText)

\* the same step with an OCR engine that finds no text in any frame
OcrRecognizeEmpty ==
    \E ocrText \in EmptyOcrTexts : OcrRecognized(FALSE, ocrText)

\* stable = self.stabilizer.push(text); if stable: text_queue.put_latest
OcrPush ==
    LET out == PushOutcome(window, otext)
    IN  /\ opc = "push"
        /\ window' = out[1]
        /\ ret' = out[2]
        /\ pushed' = otext
        /\ UNCHANGED <<runLen, runEmits, runFresh>>
        /\ text_queue' = IF IsText(out[2]) THEN PutLatest(text_queue, out[2])
                         ELSE text_queue
        /\ opc' = "loop"
        /\ UNCHANGED <<running, cpc, frame, prev_small, frame_queue,
                       forwarded, otext, ocrRaised, captureAlive, ocrAlive>>

\* AIEngine.stop(): self.running.clear()
StopThreads ==
    /\ running' = FALSE
    /\ UNCHANGED <<cpc, frame, prev_small, frame_queue, forwarded, opc, otext,
                   text_queue, ocrRaised, captureAlive, ocrAlive>>

----------------------------------------------------------------------------
(* AIEngine.translate and AIEngine.abort called by an arbitrary client *)

\* The texts a client passes to translate.
XlateTexts == { T_abc, T_bcd, <<" ", "a">>, <<"A", "B", "C", " ">> }

\* Why AIEngine.translate returned what it returned: the branch it left by.
TranslateCause(text, lastHash, mt) ==
    LET cleaned == Strip(text)
        norm    == LowerText(cleaned)
    IN  IF Len(cleaned) < MinLen THEN "short"
        ELSE IF IsHashDuplicate(norm, lastHash) THEN "duplicate"
        ELSE IF mt = NoText \/ mt = <<>> THEN "failed"
        ELSE IF ~HasRussianLetter(mt) THEN "invalid"
        ELSE "translated"

InitXlate ==
    /\ tpc = "idle"
    /\ targ = NoText
    /\ cancelReq = FALSE
    /\ treturned = NoText
    /\ tcause = "none"
    /\ seen = {}
    /\ okArg = NoText

\* a client enters ai.translate(text)
TranslateEnter ==
    /\ tpc = "idle"
    /\ \E text \in XlateTexts : targ' = text
    /\ tpc' = "running"
    /\ cancelReq' = FALSE
    /\ UNCHANGED <<treturned, tcause, seen, okArg>>
    /\ UNCHANGED evars

\* another thread calls ai.abort() while translate runs: pass
AbortCall ==
    /\ cancelReq' = (tpc = "running")
    /\ UNCHANGED <<tpc, targ, treturned, tcause, seen, okArg>>
    /\ UNCHANGED evars

\* ai.translate(text) returns; seen collects <<what happened, what the
\* caller got>> for every call that has returned
TranslateReturn ==
    /\ tpc = "running"
    /\ \E mt \in MtOutcomes :
          LET out == TranslateOutcome(targ, last_hash, mt)
              why == IF cancelReq THEN "cancelled"
                     ELSE TranslateCause(targ, last_hash, mt)
          IN  /\ treturned' = out[1]
              /\ last_hash' = out[2]
              /\ tcause' = why
              /\ seen' = seen \cup {<<why, out[1]>>}
              /\ okArg' = IF out[1] # NoText THEN targ ELSE okArg
    /\ tpc' = "idle"
    /\ UNCHANGED <<targ, cancelReq>>
    /\ UNCHANGED <<epc, cfgWidth, cfgTranslate, raw_text, stable_text,
                   last_stable_text, res, resFor, playing, calls, arrivedLast,
                   decision, halted, xlate, lastOutcome, events, initFailed,
                   looped, raisedFor, cfgAtTop>>

----------------------------------------------------------------------------
(* main.py: capture_loop, ocr_worker, translation_worker, tts_worker *)

QueueMax == 5       \* queue.Queue(maxsize=5)

\* A queue of main() is the number of items it holds.  CAPTURE_REGION is set
\* before the threads start (select_region_with_tk returns a region or
\* raises), and every call into mss, easyocr, argostranslate and pyttsx3 is
\* taken to return.
InitMain ==
    /\ stop_event = FALSE
    /\ running_event = FALSE
    /\ main_frame_queue = 0
    /\ main_text_queue = 0
    /\ tts_queue = 0
    /\ mcap = "loop"
    /\ sawRunning = FALSE
    /\ last_frame = FALSE
    /\ mocr = "loop"
    /\ mtrans = "load"
    /\ mtts = "loop"
    /\ mmain = "wait"

\* if not running_event.is_set() or CAPTURE_REGION is None: sleep, continue
MayCaptureAlways(runningSet) == TRUE
MayCapture(runningSet) == runningSet

\* Queue.put(item, timeout): the item is stored unless the queue stays full
\* until the timeout, when Full is raised and swallowed
PutTimeout(n) == IF n < QueueMax THEN n + 1 ELSE n

\* capture_loop: while not stop_event.is_set(): the pause check
CaptureCheck ==
    /\ mcap = "loop"
    /\ IF stop_event
       THEN /\ mcap' = "exit"
            /\ UNCHANGED sawRunning
       ELSE /\ sawRunning' = running_event
            /\ mcap' = IF MayCapture(running_event) THEN "grab" ELSE "loop"
    /\ UNCHANGED <<stop_event, running_event, main_frame_queue,
                   main_text_queue, tts_queue, last_frame, mocr, mtrans, mtts,
                   mmain>>

\* raw = sct.grab(monitor); the frame differs from last_frame by less than
\* DIFF_THRESHOLD: sleep, continue; else last_frame = frame
CaptureGrab ==
    /\ mcap = "grab"
    /\ \E changed \in BOOLEAN :
          IF last_frame /\ ~changed
          THEN /\ mcap' = "loop"
               /\ UNCHANGED last_frame
          ELSE /\ mcap' = "put"
               /\ last_frame' = TRUE
    /\ UNCHANGED <<stop_event, running_event, main_frame_queue,
                   main_text_queue, tts_queue, sawRunning, mocr, mtrans, mtts,
                   mmain>>

\* frame_queue.put(FrameData(...), timeout=0.1); except queue.Full: pass
CaptureEnqueue ==
    /\ mcap = "put"
    /\ main_frame_queue' = PutTimeout(main_frame_queue)
    /\ mcap' = "loop"
    /\ UNCHANGED <<stop_event, running_event, main_text_queue, tts_queue,
                   sawRunning, last_frame, mocr, mtrans, mtts, mmain>>

\* ocr_worker: while not stop_event.is_set(): frame_queue.get(timeout=0.2)
OcrWorkerGet ==
    /\ mocr = "loop"
    /\ IF stop_event
       THEN /\ mocr' = "exit"
            /\ UNCHANGED main_frame_queue
       ELSE IF main_frame_queue = 0
       THEN UNCHANGED <<mocr, main_frame_queue>>
       ELSE /\ mocr' = "work"
            /\ main_frame_queue' = main_frame_queue - 1
    /\ UNCHANGED <<stop_event, running_event, main_text_queue, tts_queue,
                   mcap, sawRunning, last_frame, mtrans, mtts, mmain>>

\* reader.readtext(...); if text.strip(): text_queue.put(text, timeout=0.1)
OcrWorkerPut ==
    /\ mocr = "work"
    /\ \E found \in BOOLEAN :
          main_text_queue' = IF found THEN PutTimeout(main_text_queue)
                             ELSE main_text_queue
    /\ mocr' = "loop"
    /\ UNCHANGED <<stop_event, running_event, main_frame_queue, tts_queue,
                   mcap, sawRunning, last_frame, mtrans, mtts, mmain>>

\* translator = load_translator(); None: stop_event.set(); return
TranslationLoad ==
    /\ mtrans = "load"
    /\ \E loaded \in BOOLEAN :
          IF loaded
          THEN /\ mtrans' = "loop"
               /\ UNCHANGED stop_event
          ELSE /\ mtrans' = "exit"
               /\ stop_event' = TRUE
    /\ UNCHANGED <<running_event, main_frame_queue, main_text_queue,
                   tts_queue, mcap, sawRunning, last_frame, mocr, mtts,
                   mmain>>

\* translation_worker: while not stop_event.is_set(): text_queue.get
TranslationGet ==
    /\ mtrans = "loop"
    /\ IF stop_event
       THEN /\ mtrans' = "exit"
            /\ UNCHANGED main_text_queue
       ELSE IF main_text_queue = 0
       THEN UNCHANGED <<mtrans, main_text_queue>>
       ELSE /\ mtrans' = "work"
            /\ main_text_queue' = main_text_queue - 1
    /\ UNCHANGED <<stop_event, running_event, main_frame_queue, tts_queue,
                   mcap, sawRunning, last_frame, mocr, mtts, mmain>>

\* empty or repeated text, or translate raised: continue; else
\* tts_queue.put(translated, timeout=0.1)
TranslationPut ==
    /\ mtrans = "work"
    /\ \E translated \in BOOLEAN :
          tts_queue' = IF translated THEN PutTimeout(tts_queue) ELSE tts_queue
    /\ mtrans' = "loop"
    /\ UNCHANGED <<stop_event, running_event, main_frame_queue,
                   main_text_queue, mcap, sawRunning, last_frame, mocr, mtts,
                   mmain>>

\* tts_worker: while not stop_event.is_set(): tts_queue.get(timeout=0.2)
TtsGet ==
    /\ mtts = "loop"
    /\ IF stop_event
       THEN /\ mtts' = "exit"
            /\ UNCHANGED tts_queue
       ELSE IF tts_queue = 0
       THEN UNCHANGED <<mtts, tts_queue>>
       ELSE /\ mtts' = "say"
            /\ tts_queue' = tts_queue - 1
    /\ UNCHANGED <<stop_event, running_event, main_frame_queue,
                   main_text_queue, mcap, sawRunning, last_frame, mocr,
                   mtrans, mmain>>

\* engine.stop(); engine.say(text); engine.runAndWait()
TtsSay ==
    /\ mtts = "say"
    /\ mtts' = "loop"
    /\ UNCHANGED <<stop_event, running_event, main_frame_queue,
                   main_text_queue, tts_queue, mcap, sawRunning, last_frame,
                   mocr, mtrans, mmain>>

\* hotkey F9: toggle_running
ToggleRunning ==
    /\ mmain = "wait"
    /\ running_event' = ~running_event
    /\ UNCHANGED <<stop_event, main_frame_queue, main_text_queue, tts_queue,
                   mcap, sawRunning, last_frame, mocr, mtrans, mtts, mmain>>

\* hotkey F10: request_exit
RequestExit ==
    /\ mmain = "wait"
    /\ stop_event' = TRUE
    /\ UNCHANGED <<running_event, main_frame_queue, main_text_queue,
                   tts_queue, mcap, sawRunning, last_frame, mocr, mtrans,
                   mtts, mmain>>

\* main: while not stop_event.is_set(): sleep; running_event.set(); join
MainShutdown ==
    /\ mmain = "wait"
    /\ stop_event
    /\ running_event' = TRUE
    /\ mmain' = "joined"
    /\ UNCHANGED <<stop_event, main_frame_queue, main_text_queue, tts_queue,
                   mcap, sawRunning, last_frame, mocr, mtrans, mtts>>

----------------------------------------------------------------------------
(* run_engine: the status reported for the previous phrase *)

MaxClock == 5       \* time.time() readings the clock goes through

\* what audio.speak can return as duration, in clock units (0.0: nothing
\* was played)
Durations == {0, 1, 2}

\* was_interrupted = now < last_audio_finish_time
WasInterruptedOrEqual(t, finish) == t <= finish
WasInterrupted(t, finish) == t < finish

\* last_audio_finish_time = 0; last_phrase_duration = 0
InitStatus ==
    /\ clock = 0
    /\ spc = "idle"
    /\ now = 0
    /\ last_audio_finish_time = 0
    /\ last_phrase_duration = 0
    /\ voice_duration = 0
    /\ prev_status = "none"
    /\ recordedAt = 0

\* time passes
ClockTick ==
    /\ clock < MaxClock
    /\ clock' = clock + 1
    /\ UNCHANGED <<spc, now, last_audio_finish_time, last_phrase_duration,
                   voice_duration, prev_status, recordedAt>>

\* a new phrase is accepted: now = time.time(); was_interrupted = ...;
\* prev_status = ...; voice_duration = 0.0
PhraseAccepted ==
    /\ spc = "idle"
    /\ now' = clock
    /\ prev_status' = IF WasInterrupted(clock, last_audio_finish_time)
                      THEN "Interrupted" ELSE "Completed"
    /\ voice_duration' = 0
    /\ spc' = "dispatch"
    /\ UNCHANGED <<clock, last_audio_finish_time, last_phrase_duration,
                   recordedAt>>

\* translate and speak: audio.speak returns voice_duration, or nothing is
\* spoken and voice_duration stays 0.0, or ai.translate raises and the
\* cycle ends in the except of the loop
PhraseDispatch ==
    /\ spc = "dispatch"
    /\ \E raised \in BOOLEAN, d \in Durations :
          IF raised
          THEN /\ spc' = "idle"
               /\ UNCHANGED voice_duration
          ELSE /\ spc' = "record"
               /\ voice_duration' = d
    /\ UNCHANGED <<clock, now, last_audio_finish_time, last_phrase_duration,
                   prev_status, recordedAt>>

\* last_audio_finish_time = time.time() + voice_duration;
\* last_phrase_duration = voice_duration
PhraseRecord ==
    /\ spc = "record"
    /\ last_audio_finish_time' = clock + voice_duration
    /\ last_phrase_duration' = voice_duration
    /\ recordedAt' = clock
    /\ spc' = "idle"
    /\ UNCHANGED <<clock, now, voice_duration, prev_status>>

----------------------------------------------------------------------------
(* AudioPlayer.speak: the voice of each character *)

NoVoice == "none"

\* self.speakers = {'m': ['aidar', 'eugene'], 'f': ['kseniya', 'xenia', 'baya']}
MaleVoices == {"aidar", "eugene"}
FemaleVoices == {"kseniya", "xenia", "baya"}

\* the names and genders a caller passes; "" stands for no name
CharNames == {"Anna", "Boris"}
Genders == {"m", "f", "F", "unknown"}

\* the texts a caller passes: nothing, Latin letters only, Russian
SpeakTexts == {<<>>, <<"x">>, T_ru}

\* gender.lower()
GenderLower(g) == IF g = "F" THEN "f" ELSE IF g = "M" THEN "m" ELSE g

\* self.speakers.get(gender.lower(), self.speakers['m'])
VoicePool(gender) ==
    IF GenderLower(gender) = "f" THEN FemaleVoices ELSE MaleVoices

\* if name and name not in self.char_map
NeedsVoiceAlways(name, cm) == name # ""
NeedsVoice(name, cm) == name # "" /\ cm[name] = NoVoice

\* self.char_map = {}
InitVoices ==
    /\ char_map = [n \in CharNames |-> NoVoice]
    /\ vname = ""
    /\ speaker = NoVoice
    /\ speaker_name = "None"
    /\ firstVoice = [n \in CharNames |-> NoVoice]

\* AudioPlayer.speak(text, name, gender): the two early returns, else the
\* voice is looked up (and chosen first for a name without one), the text is
\* synthesized with it, and the call returns that voice or "Error"
Speak ==
    \E text \in SpeakTexts, name \in CharNames \cup {""}, gender \in Genders,
       tts \in TtsOutcomes :
        /\ vname' = name
        /\ IF text = <<>>
           THEN /\ speaker_name' = "None"
                /\ speaker' = NoVoice
                /\ UNCHANGED <<char_map, firstVoice>>
           ELSE IF ~HasCyrillic(text)
           THEN /\ speaker_name' = "Skipped (No RU)"
                /\ speaker' = NoVoice
                /\ UNCHANGED <<char_map, firstVoice>>
           ELSE /\ IF NeedsVoice(name, char_map)
                   THEN \E v \in VoicePool(gender) :
                           char_map' = [char_map EXCEPT ![name] = v]
                   ELSE UNCHANGED char_map
                /\ speaker' = IF name \in CharNames /\ char_map'[name] # NoVoice
                              THEN char_map'[name] ELSE "aidar"
                /\ speaker_name' = IF tts = "played" THEN speaker' ELSE "Error"
                /\ firstVoice' =
                      [n \in CharNames |->
                          IF firstVoice[n] = NoVoice THEN char_map'[n]
                          ELSE firstVoice[n]]

----------------------------------------------------------------------------
(* Specifications *)

InitRest ==
    InitThreads /\ InitXlate /\ InitMain /\ InitStatus /\ InitVoices

\* One producer and one consumer on a LatestQueue.
InitQ == InitQueue /\ InitStab /\ InitEngine /\ InitRest
NextQ ==
    \/ PutLatestCall /\ UNCHANGED <<svars, evars, rest>>
    \/ PutFirst /\ UNCHANGED <<svars, evars, rest>>
    \/ PutEvict /\ UNCHANGED <<svars, evars, rest>>
    \/ PutSecond /\ UNCHANGED <<svars, evars, rest>>
    \/ ConsumerGet /\ UNCHANGED <<svars, evars, rest>>
    \/ ConsumerEmpty /\ UNCHANGED <<svars, evars, rest>>
SpecQueue == InitQ /\ [][NextQ]_vars

\* The same two threads under a scheduler that eventually runs a consumer
\* that keeps calling get(timeout) and a producer that is inside put_latest;
\* the producer is free never to call put_latest again.
ConsumerStep == (ConsumerGet \/ ConsumerEmpty) /\ UNCHANGED <<svars, evars, rest>>
ProducerStep ==
    (PutFirst \/ PutEvict \/ PutSecond) /\ UNCHANGED <<svars, evars, rest>>
SpecQueueFair ==
    /\ InitQ
    /\ [][NextQ]_vars
    /\ WF_vars(ConsumerStep)
    /\ WF_vars(ProducerStep)

\* A TextStabilizer pushed with arbitrary texts.
InitS == InitQueue /\ InitStab /\ InitEngine /\ InitRest
NextS == PushAny /\ UNCHANGED <<qvars, evars, rest>>
SpecStab == InitS /\ [][NextS]_vars

\* The engine thread running run_engine, the UI thread and the audio device.
InitE == InitQueue /\ InitStab /\ InitEngine /\ InitRest
NextE ==
    \/ EngineInit /\ UNCHANGED <<qvars, rest>>
    \/ EngineTop /\ UNCHANGED <<qvars, rest>>
    \/ EngineGrab /\ UNCHANGED <<qvars, rest>>
    \/ EngineRecognize /\ UNCHANGED <<qvars, rest>>
    \/ EnginePush /\ UNCHANGED rest
    \/ EngineStop /\ UNCHANGED <<qvars, rest>>
    \/ EngineAbort /\ UNCHANGED <<qvars, rest>>
    \/ EngineMode /\ UNCHANGED <<qvars, rest>>
    \/ EngineTranslate /\ UNCHANGED <<qvars, rest>>
    \/ EngineSpeak /\ UNCHANGED <<qvars, rest>>
    \/ EngineSpeakOriginal /\ UNCHANGED <<qvars, rest>>
    \/ EngineUpdate /\ UNCHANGED <<qvars, rest>>
    \/ AudioFinish /\ UNCHANGED <<qvars, rest>>
    \/ SetMonitor /\ UNCHANGED <<qvars, rest>>
    \/ SetTranslate /\ UNCHANGED <<qvars, rest>>
SpecEngine == InitE /\ [][NextE]_vars

\* The capture thread and the OCR thread of an AIEngine, started and stopped
\* by a client.
InitT == InitQueue /\ InitStab /\ InitEngine /\ InitRest
NextT ==
    \/ StartCapture /\ UNCHANGED <<qvars, svars, evars, xvars, mvars, pvars, avars>>
    \/ CaptureLoop /\ UNCHANGED <<qvars, svars, evars, xvars, mvars, pvars, avars>>
    \/ CaptureFrame /\ UNCHANGED <<qvars, svars, evars, xvars, mvars, pvars, avars>>
    \/ CaptureGate /\ UNCHANGED <<qvars, svars, evars, xvars, mvars, pvars, avars>>
    \/ CapturePut /\ UNCHANGED <<qvars, svars, evars, xvars, mvars, pvars, avars>>
    \/ CaptureSleep /\ UNCHANGED <<qvars, svars, evars, xvars, mvars, pvars, avars>>
    \/ StartOcr /\ UNCHANGED <<qvars, svars, evars, xvars, mvars, pvars, avars>>
    \/ OcrLoop /\ UNCHANGED <<qvars, svars, evars, xvars, mvars, pvars, avars>>
    \/ OcrGet /\ UNCHANGED <<qvars, svars, evars, xvars, mvars, pvars, avars>>
    \/ OcrRecognize /\ UNCHANGED <<qvars, svars, evars, xvars, mvars, pvars, avars>>
    \/ OcrPush /\ UNCHANGED <<qvars, evars, xvars, mvars, pvars, avars>>
    \/ StopThreads /\ UNCHANGED <<qvars, svars, evars, xvars, mvars, pvars, avars>>
SpecThreads == InitT /\ [][NextT]_vars

\* The same threads under a scheduler that eventually runs each thread that
\* can take a step; capture_func and recognize return.
CaptureThreadStep ==
    (CaptureLoop \/ CaptureFrame \/ CaptureGate \/ CapturePut \/ CaptureSleep)
        /\ UNCHANGED <<qvars, svars, evars, xvars, mvars, pvars, avars>>
OcrThreadStep ==
    \/ (OcrLoop \/ OcrGet \/ OcrRecognize)
           /\ UNCHANGED <<qvars, svars, evars, xvars, mvars, pvars, avars>>
    \/ OcrPush /\ UNCHANGED <<qvars, evars, xvars, mvars, pvars, avars>>
SpecThreadsFair ==
    /\ InitT
    /\ [][NextT]_vars
    /\ WF_vars(CaptureThreadStep)
    /\ WF_vars(OcrThreadStep)

\* run_engine and the two AIEngine threads over an OCR engine that finds no
\* text in any frame; nobody calls AIEngine.stop().  Each thread that can
\* take a step eventually takes one.
InitB == InitQueue /\ InitStab /\ InitEngine /\ InitRest
BlankEngineStep ==
    (EngineInit \/ EngineTop \/ EngineGrab \/ EngineRecognizeEmpty)
        /\ UNCHANGED <<qvars, rest>>
BlankCaptureStep ==
    (CaptureLoop \/ CaptureFrame \/ CaptureGate \/ CapturePut \/ CaptureSleep)
        /\ UNCHANGED <<qvars, svars, evars, xvars, mvars, pvars, avars>>
BlankOcrStep ==
    (OcrLoop \/ OcrGet \/ OcrRecognizeEmpty)
        /\ UNCHANGED <<qvars, svars, evars, xvars, mvars, pvars, avars>>
NextB ==
    \/ EngineInit /\ UNCHANGED <<qvars, rest>>
    \/ EngineTop /\ UNCHANGED <<qvars, rest>>
    \/ EngineGrab /\ UNCHANGED <<qvars, rest>>
    \/ EngineRecognizeEmpty /\ UNCHANGED <<qvars, rest>>
    \/ SetMonitor /\ UNCHANGED <<qvars, rest>>
    \/ SetTranslate /\ UNCHANGED <<qvars, rest>>
    \/ StartCapture /\ UNCHANGED <<qvars, svars, evars, xvars, mvars, pvars, avars>>
    \/ CaptureLoop /\ UNCHANGED <<qvars, svars, evars, xvars, mvars, pvars, avars>>
    \/ CaptureFrame /\ UNCHANGED <<qvars, svars, evars, xvars, mvars, pvars, avars>>
    \/ CaptureGate /\ UNCHANGED <<qvars, svars, evars, xvars, mvars, pvars, avars>>
    \/ CapturePut /\ UNCHANGED <<qvars, svars, evars, xvars, mvars, pvars, avars>>
    \/ CaptureSleep /\ UNCHANGED <<qvars, svars, evars, xvars, mvars, pvars, avars>>
    \/ StartOcr /\ UNCHANGED <<qvars, svars, evars, xvars, mvars, pvars, avars>>
    \/ OcrLoop /\ UNCHANGED <<qvars, svars, evars, xvars, mvars, pvars, avars>>
    \/ OcrGet /\ UNCHANGED <<qvars, svars, evars, xvars, mvars, pvars, avars>>
    \/ OcrRecognizeEmpty /\ UNCHANGED <<qvars, svars, evars, xvars, mvars, pvars, avars>>
SpecBlankOcr ==
    /\ InitB
    /\ [][NextB]_vars
    /\ WF_vars(BlankEngineStep)
    /\ WF_vars(BlankCaptureStep)
    /\ WF_vars(BlankOcrStep)

\* A client calling AIEngine.translate, and AIEngine.abort from another
\* thread.
InitX == InitQueue /\ InitStab /\ InitEngine /\ InitRest
NextX ==
    \/ TranslateEnter /\ UNCHANGED <<qvars, svars, tvars, mvars, pvars, avars>>
    \/ AbortCall /\ UNCHANGED <<qvars, svars, tvars, mvars, pvars, avars>>
    \/ TranslateReturn /\ UNCHANGED <<qvars, svars, tvars, mvars, pvars, avars>>
SpecTranslate == InitX /\ [][NextX]_vars

\* The pipeline of main.py: four worker threads, the hotkeys and main().
\* Each worker thread that can take a step eventually takes one.
InitM == InitQueue /\ InitStab /\ InitEngine /\ InitRest
MCaptureStep ==
    (CaptureCheck \/ CaptureGrab \/ CaptureEnqueue)
        /\ UNCHANGED <<qvars, svars, evars, tvars, xvars, pvars, avars>>
MOcrStep ==
    (OcrWorkerGet \/ OcrWorkerPut)
        /\ UNCHANGED <<qvars, svars, evars, tvars, xvars, pvars, avars>>
MTranslationStep ==
    (TranslationLoad \/ TranslationGet \/ TranslationPut)
        /\ UNCHANGED <<qvars, svars, evars, tvars, xvars, pvars, avars>>
MTtsStep ==
    (TtsGet \/ TtsSay) /\ UNCHANGED <<qvars, svars, evars, tvars, xvars, pvars, avars>>
NextM ==
    \/ CaptureCheck /\ UNCHANGED <<qvars, svars, evars, tvars, xvars, pvars, avars>>
    \/ CaptureGrab /\ UNCHANGED <<qvars, svars, evars, tvars, xvars, pvars, avars>>
    \/ CaptureEnqueue /\ UNCHANGED <<qvars, svars, evars, tvars, xvars, pvars, avars>>
    \/ OcrWorkerGet /\ UNCHANGED <<qvars, svars, evars, tvars, xvars, pvars, avars>>
    \/ OcrWorkerPut /\ UNCHANGED <<qvars, svars, evars, tvars, xvars, pvars, avars>>
    \/ TranslationLoad /\ UNCHANGED <<qvars, svars, evars, tvars, xvars, pvars, avars>>
    \/ TranslationGet /\ UNCHANGED <<qvars, svars, evars, tvars, xvars, pvars, avars>>
    \/ TranslationPut /\ UNCHANGED <<qvars, svars, evars, tvars, xvars, pvars, avars>>
    \/ TtsGet /\ UNCHANGED <<qvars, svars, evars, tvars, xvars, pvars, avars>>
    \/ TtsSay /\ UNCHANGED <<qvars, svars, evars, tvars, xvars, pvars, avars>>
    \/ ToggleRunning /\ UNCHANGED <<qvars, svars, evars, tvars, xvars, pvars, avars>>
    \/ RequestExit /\ UNCHANGED <<qvars, svars, evars, tvars, xvars, pvars, avars>>
    \/ MainShutdown /\ UNCHANGED <<qvars, svars, evars, tvars, xvars, pvars, avars>>
SpecMain ==
    /\ InitM
    /\ [][NextM]_vars
    /\ WF_vars(MCaptureStep)
    /\ WF_vars(MOcrStep)
    /\ WF_vars(MTranslationStep)
    /\ WF_vars(MTtsStep)

\* The accepted branch of run_engine against the clock.
InitP == InitQueue /\ InitStab /\ InitEngine /\ InitRest
NextP ==
    \/ ClockTick /\ UNCHANGED <<qvars, svars, evars, tvars, xvars, mvars, avars>>
    \/ PhraseAccepted
           /\ UNCHANGED <<qvars, svars, evars, tvars, xvars, mvars, avars>>
    \/ PhraseDispatch
           /\ UNCHANGED <<qvars, svars, evars, tvars, xvars, mvars, avars>>
    \/ PhraseRecord
           /\ UNCHANGED <<qvars, svars, evars, tvars, xvars, mvars, avars>>
SpecStatus == InitP /\ [][NextP]_vars

\* An AudioPlayer asked to speak arbitrary texts for arbitrary characters.
InitA == InitQueue /\ InitStab /\ InitEngine /\ InitRest
NextA == Speak /\ UNCHANGED <<qvars, svars, evars, tvars, xvars, mvars, pvars>>
SpecVoices == InitA /\ [][NextA]_vars

----------------------------------------------------------------------------
(* Claims about LatestQueue, checked under SpecQueue *)

\* C1: after one or more put_latest calls have returned with no get in
\* between, the queue holds exactly the item of the last call; the next get
\* returns that item and leaves the queue empty, so no earlier item can be
\* returned by it or by a later get.
C1_OverwriteLaw ==
    [][ (ppc = "idle" /\ putsSinceGet >= 1) =>
            /\ queue = <<lastPut>>
            /\ delivered' # delivered =>
                   /\ got' = lastPut
                   /\ delivered' = Append(delivered, lastPut)
                   /\ queue' = <<>> ]_vars

\* three put_latest calls returned back to back, then the get returned item 3
C1_Witness ==
    /\ delivered = <<3>>
    /\ got = 3
    /\ queue = <<>>
    /\ nput = 3
    /\ ppc = "idle"

\* C2: a LatestQueue never holds more than one item, whatever the
\* interleaving of the producer's steps and the consumer's gets.
C2_AtMostOne == Len(queue) <= 1

\* the producer is three calls ahead of a consumer that has not read yet
C2_Witness ==
    /\ nput >= 3
    /\ delivered = <<>>
    /\ ppc = "evict"
    /\ Len(queue) = 1

\* C3: put_latest never lets Full (or Empty) reach its caller, and the step
\* with which it returns leaves exactly its item in the queue.
C3_PutLatestReturns ==
    [][ /\ ppc' # "raised"
        /\ (ppc # "idle" /\ ppc' = "idle") => queue' = <<pitem>> ]_vars

\* a put_latest call returned although the consumer took the old item
\* between the failed put and get_nowait
C3_Witness ==
    /\ ppc = "idle"
    /\ swallowed
    /\ queue = <<pitem>>
    /\ pitem >= 2

\* C4: what the consumer obtains is a subsequence of what the producer put:
\* every delivered item was put, and items are delivered in strictly
\* increasing call order (none twice, none after a later one).
C4_DeliveredInOrder ==
    /\ \A i \in 1..Len(delivered) : delivered[i] \in 1..nput
    /\ \A i, j \in 1..Len(delivered) : i < j => delivered[i] < delivered[j]

\* item 2 was overwritten and skipped, items 1 and 3 were delivered
C4_Witness == delivered = <<1, 3>>

----------------------------------------------------------------------------
(* Claims about TextStabilizer, checked under SpecStab *)

\* C5 as stated: a run of N or more identical valid pushes makes push return
\* a phrase exactly once.
C5_Original == runLen >= History => runEmits = 1

\* C5 amended: from the push at which the run reaches N on, every push of
\* the run returns the trimmed text, so a run of k >= N pushes returns a
\* phrase at least k - N + 1 times, and exactly k - N + 1 times when the
\* window was empty before the run.
C5_EmitsEveryPush ==
    runLen >= History =>
        /\ ret = Strip(pushed)
        /\ runEmits >= runLen - History + 1
        /\ runFresh => runEmits = runLen - History + 1

\* a run of N + 2 pushes into an empty stabilizer returned the phrase 3 times
C5_Witness ==
    /\ runLen = History + 2
    /\ runFresh
    /\ runEmits = 3

\* C6: push returns the trimmed newest text exactly when the text is not
\* rejected, the window then holds N entries and each of them has
\* similarity >= threshold with the newest; otherwise it returns None.
C6_PushContract ==
    pushed # NoText =>
        /\ ret = Strip(pushed) <=>
               /\ ~Rejected(Strip(pushed))
               /\ Len(window) = History
               /\ window[Len(window)] = Strip(pushed)
               /\ \A i \in 1..Len(window) :
                      RatioAtLeast(window[Len(window)], window[i], StabPct)
        /\ ret # Strip(pushed) => ret = NoText

\* a padded text was returned trimmed from a window of similar, not
\* identical, entries
C6_Witness ==
    /\ pushed = <<" ", "a", "b", "c", " ">>
    /\ ret = T_abc
    /\ window = <<T_abcd, T_abcd, T_abc>>

\* C7 as stated: a phrase is returned only when every pair of window
\* entries is similar at or above the threshold.
C7_Original ==
    ret # NoText =>
        \A i, j \in 1..Len(window) :
            RatioAtLeast(window[i], window[j], StabPct)

\* C7 amended: a phrase is returned only when the window is full and every
\* entry is similar to the newest entry at or above the threshold; two older
\* entries need not be similar to each other.
C7_SimilarToNewest ==
    ret # NoText =>
        /\ Len(window) = History
        /\ \A i \in 1..Len(window) :
               RatioAtLeast(window[Len(window)], window[i], StabPct)

\* a phrase was returned from a window whose two older entries disagree
C7_Witness ==
    /\ ret = T_abcd
    /\ window = <<T_abc, T_bcd, T_abcd>>
    /\ ~RatioAtLeast(T_abc, T_bcd, StabPct)

----------------------------------------------------------------------------
(* Claims about the coordinator loop, checked under SpecEngine *)

\* C8: a stable phrase whose similarity to the last dispatched text (as it
\* was when the phrase arrived) is >= 0.95 starts no dispatch: the cycle
\* makes no stop, abort, translate or speak call, ends at once, and
\* last_stable_text stays what it was.
C8_DuplicateSuppressed ==
    (stable_text # NoText /\ RatioAtLeast(stable_text, arrivedLast, DupPct)) =>
        /\ decision = "suppressed"
        /\ calls = <<>>
        /\ epc = "top"
        /\ last_stable_text = arrivedLast

\* a dispatched phrase was confirmed once more by the stabilizer and dropped
C8_Witness ==
    /\ stable_text # NoText
    /\ arrivedLast = stable_text
    /\ decision = "suppressed"

\* C9 as stated: a stable phrase is suppressed exactly when its similarity
\* to the last dispatched text is >= 0.95, and accepted (dispatch begun)
\* whenever it is below 0.95.
C9_Original ==
    stable_text # NoText =>
        /\ decision = "suppressed" <=>
               RatioAtLeast(stable_text, arrivedLast, DupPct)
        /\ decision = "accepted" <=>
               ~RatioAtLeast(stable_text, arrivedLast, DupPct)

\* C10: in a cycle that accepted a phrase, audio.stop() and ai.abort() are
\* the first two calls, so both have returned before ai.translate is
\* entered, whether or not a previous phrase was still playing.
C10_StopAbortFirst ==
    /\ (decision = "accepted" /\ epc \notin {"stop", "abort"}) =>
           /\ Len(calls) >= 2
           /\ calls[1] = "stop"
           /\ calls[2] = "abort"
    /\ \A i \in 1..Len(calls) : calls[i] = "translate" => i > 2
    /\ epc = "translate" => calls = <<"stop", "abort">>

\* the translator was called after stop cut a phrase that was still playing
C10_Witness ==
    /\ halted
    /\ calls = <<"stop", "abort", "translate", "mt">>


\* C11: the result handed to audio.speak is the one ai.translate returned in
\* this very cycle for the phrase this cycle accepted; a cycle whose
\* translate call returned nothing or raised speaks nothing.  A result is
\* therefore never spoken once a newer phrase has been accepted.
C11_SpeaksOwnResult ==
    /\ epc = "speak" =>
           /\ decision = "accepted"
           /\ xlate = "result"
           /\ resFor = stable_text
           /\ res # NoText
    /\ xlate \in {"noresult", "raised"} =>
           \A i \in 1..Len(calls) : calls[i] # "speak"

\* a second phrase was accepted after an earlier dispatch, and what plays is
\* the result translated for that second phrase
C11_Witness ==
    /\ epc = "update"
    /\ arrivedLast # <<>>
    /\ calls = <<"stop", "abort", "translate", "mt", "speak">>
    /\ resFor = stable_text
    /\ playing = <<res>>

\* C12: at most one buffer is ever playing; from the return of audio.stop()
\* until audio.speak is entered (while the accepted phrase is translated)
\* nothing of an earlier phrase is playing; and a cycle enters ai.translate
\* at most once.
C12_OneLivePhrase ==
    /\ Len(playing) <= 1
    /\ epc \in {"abort", "mode", "translate", "speak", "speakorig"} =>
           playing = <<>>
    /\ \A i, j \in 1..Len(calls) :
           (calls[i] = "translate" /\ calls[j] = "translate") => i = j

\* the earlier phrase was cut while it played and the later phrase now plays
\* alone
C12_Witness ==
    /\ halted
    /\ epc = "update"
    /\ Len(playing) = 1
    /\ calls[Len(calls)] = "speak"

\* C13: when ai.translate returns no usable result for an accepted phrase,
\* the cycle calls no speak, leaves nothing playing and ends by recording the
\* phrase as last_stable_text; when the stabilizer confirms that phrase
\* again, the cycle is suppressed without any call.
C13_NoResultEndsCycle ==
    /\ xlate = "noresult" =>
           /\ epc \in {"update", "top"}
           /\ \A i \in 1..Len(calls) : calls[i] # "speak"
           /\ playing = <<>>
           /\ epc = "top" =>
                  /\ last_stable_text = stable_text
                  /\ lastOutcome = "noresult"
    /\ (/\ lastOutcome = "noresult"
        /\ stable_text # NoText
        /\ stable_text = arrivedLast) =>
           /\ decision = "suppressed"
           /\ calls = <<>>
           /\ epc = "top"

\* a phrase whose translation gave no result was confirmed again and dropped
C13_Witness ==
    /\ lastOutcome = "noresult"
    /\ stable_text # NoText
    /\ stable_text = arrivedLast
    /\ decision = "suppressed"

\* C14: when a constructor at the head of run_engine raises, the fatal
\* error is reported and run_engine has returned: the loop is never entered,
\* and nothing is grabbed, recognized, pushed, translated or spoken.
C14_FatalInitReturns ==
    initFailed =>
        /\ epc = "fatal"
        /\ ~looped
        /\ events = <<"fatal">>
        /\ calls = <<>>
        /\ raw_text = NoText
        /\ stable_text = NoText
        /\ window = <<>>
        /\ xlate = "none"
        /\ playing = <<>>

\* the constructors failed; the UI went on to select a region and to switch
\* the mode, and still nothing runs
C14_Witness ==
    /\ initFailed
    /\ cfgWidth = 1
    /\ ~cfgTranslate

----------------------------------------------------------------------------
(* Claims about an OCR engine that finds no text, checked under SpecBlankOcr *)

\* C15: with an OCR engine that returns empty text for every frame, neither
\* run_engine nor _ocr_loop ever leaves its loop or raises, no stabilizer is
\* pushed, nothing is translated, spoken or put on the text queue, and every
\* iteration that was begun comes back to the head of its loop, from where
\* the next one begins.
C15_BlankOcrKeepsLooping ==
    /\ [](/\ epc \in {"init", "fatal", "top", "grab", "ocr"}
          /\ opc \in {"none", "loop", "get", "ocr"}
          /\ ~ocrRaised
          /\ window = <<>>
          /\ calls = <<>>
          /\ playing = <<>>
          /\ text_queue = <<>>
          /\ \A i \in 1..Len(events) : events[i] # "error")
    /\ (epc \in {"grab", "ocr"}) ~> (epc = "top")
    /\ (epc = "top" /\ cfgWidth = 1) ~> (epc = "grab")
    /\ (opc \in {"get", "ocr"}) ~> (opc = "loop")
    /\ (opc = "loop") ~> (opc = "get")

\* the OCR thread took a forwarded frame, found no text and is back at the
\* head of its loop, and run_engine is in its loop with a region selected
C15_Witness ==
    /\ forwarded # NoFrame
    /\ frame_queue = <<>>
    /\ opc = "loop"
    /\ looped
    /\ cfgWidth = 1
    /\ epc = "top"

----------------------------------------------------------------------------
(* Claims about the AIEngine threads, checked under SpecThreads *)

\* C16 as stated: after the recognizer raised for a frame, the OCR thread
\* is still inside its loop (or has left it because stop() was called).
C16_Original == ocrRaised => opc # "crashed"

\* C17: the capture thread forwards the first frame; it forwards a later
\* frame exactly when its mean difference from prev_small is not below the
\* threshold; a dropped frame changes neither prev_small nor the frame
\* queue; a forwarded frame becomes prev_small and the only item of the
\* frame queue; outside the two steps of forwarding, prev_small is the small
\* image of the frame forwarded last.
C17_ChangeGate ==
    [][ /\ (cpc = "gate" /\ cpc' # "gate") =>
               /\ cpc' = "put" <=>
                      \/ prev_small = NoFrame
                      \/ ~MeanDiffBelow(Small(frame), prev_small,
                                        DiffThreshold)
               /\ cpc' = "put" => prev_small' = Small(frame)
               /\ cpc' # "put" =>
                      /\ prev_small' = prev_small
                      /\ frame_queue' = frame_queue
        /\ (cpc = "put" /\ cpc' # "put") =>
               /\ forwarded' = frame
               /\ frame_queue' = <<frame>>
        /\ cpc' # "put" => prev_small' = Small(forwarded') ]_vars

\* frame F_b was dropped against the baseline of the forwarded frame F_c
C17_Witness ==
    /\ cpc = "sleep"
    /\ frame = F_b
    /\ forwarded = F_c
    /\ prev_small = Small(F_c)

----------------------------------------------------------------------------
(* Claims about AIEngine.translate, checked under SpecTranslate *)

\* C18 as stated: a translation that was cancelled, one that failed and one
\* that was suppressed as a duplicate hand different values to the caller.
C18_Original ==
    \A p, q \in seen :
        (/\ p[1] \in {"cancelled", "failed", "duplicate"}
         /\ q[1] \in {"cancelled", "failed", "duplicate"}
         /\ p[1] # q[1]) => p[2] # q[2]

----------------------------------------------------------------------------
(* Claims about the pipeline of main.py, checked under SpecMain *)

\* C20 as stated: no step taken while running_event is clear adds a frame
\* to the frame queue.
C20_Original ==
    [][ ~running_event => main_frame_queue' <= main_frame_queue ]_vars

\* C20 amended: capture_loop grabs and enqueues only in an iteration whose
\* check found running_event set (a pause that comes after the check lets
\* that one frame through), and once stop_event is set all four worker
\* loops terminate, whatever the three queues hold.
C20_PauseAndExit ==
    /\ [](mcap \in {"grab", "put"} => sawRunning)
    /\ stop_event ~> (/\ mcap = "exit"
                      /\ mocr = "exit"
                      /\ mtrans = "exit"
                      /\ mtts = "exit")

\* all four loops have ended with the frame queue full and the two other
\* queues not empty
C20_Witness ==
    /\ stop_event
    /\ mcap = "exit"
    /\ mocr = "exit"
    /\ mtrans = "exit"
    /\ mtts = "exit"
    /\ main_frame_queue = QueueMax
    /\ main_text_queue > 0
    /\ tts_queue > 0

----------------------------------------------------------------------------
(* Claims about the events of the coordinator loop, checked under SpecEngine *)

\* C19 as stated: every cycle that ends with a stable phrase has emitted
\* exactly one decision event, and the event of a suppressed phrase is not
\* the dispatch report.  (The log block is the only signal of run_engine
\* that reports a decision.)
C19_Original ==
    (epc = "top" /\ stable_text # NoText) =>
        /\ Cardinality({i \in 1..Len(events) :
                           events[i] \in {"log_block", "suppressed"}}) = 1
        /\ decision = "suppressed" =>
               \A i \in 1..Len(events) : events[i] # "log_block"


----------------------------------------------------------------------------
(* Further claims about the coordinator loop, checked under SpecEngine *)

\* C21 as stated: whenever a cycle that accepted a phrase has entered
\* ai.translate, the underlying translator was called for that phrase.
C21_Original ==
    (decision = "accepted" /\ \E i \in 1..Len(calls) : calls[i] = "translate")
        => \E i \in 1..Len(calls) : calls[i] = "mt"

\* C22 as stated: a stable reading identical to the phrase whose translate
\* call raised is not dispatched again; the coordinator suppresses it.
C22_Original ==
    (stable_text # NoText /\ stable_text = raisedFor /\ xlate # "raised")
        => decision = "suppressed"

\* C28 as stated: the translate flag a cycle acts on is the one of the
\* configuration version the cycle started with (the one its capture region
\* was read from): a cycle in the translate branch started with the flag
\* set, a cycle in the original-language branch started with it cleared.
C28_Original ==
    /\ epc \in {"translate", "speak"} => cfgAtTop
    /\ epc = "speakorig" => ~cfgAtTop

----------------------------------------------------------------------------
(* Further claims about TextStabilizer, checked under SpecStab *)

\* C26: a push whose text is empty or shorter than 2 characters after
\* trimming returns None and leaves the window as it was; every other push
\* appends the trimmed text as the newest entry and, if the window already
\* held N entries, drops exactly the oldest; the window never holds more
\* than N entries and never gets shorter.
C26_WindowEffect ==
    [][LET clean == Strip(pushed')
       IN  /\ IF Rejected(clean)
              THEN ret' = NoText /\ window' = window
              ELSE window' = (IF Len(window) = History
                              THEN Tail(window) ELSE window) \o <<clean>>
           /\ Len(window') <= History
           /\ Len(window') >= Len(window)]_vars

\* three pushes of one text filled a window that was not empty before
\* them: the entries that were there have left, oldest first
C26_Witness ==
    /\ window = <<T_bcd, T_bcd, T_bcd>>
    /\ runLen = History
    /\ ~runFresh

----------------------------------------------------------------------------
(* Further claims about LatestQueue, checked under SpecQueueFair *)

\* C25: once put_latest(x) has returned, x is in the queue or has been
\* delivered (the eviction step of the call never removes x itself); and
\* every x handed to put_latest is eventually received by the consumer
\* unless the producer calls put_latest again.
C25_LatestIsDelivered ==
    /\ [](ppc = "idle" /\ nput > 0
            => /\ lastPut = nput
               /\ \/ queue = <<nput>>
                  \/ \E i \in 1..Len(delivered) : delivered[i] = nput)
    /\ \A x \in 1..MaxPuts :
          (nput = x) ~> (\/ \E i \in 1..Len(delivered) : delivered[i] = x
                         \/ nput > x)

\* the producer evicted item 1 for item 2 and stopped; the consumer got 2
C25_Witness ==
    /\ ppc = "idle"
    /\ nput = 2
    /\ swallowed = FALSE
    /\ delivered = <<2>>

----------------------------------------------------------------------------
(* Further claims about the AIEngine threads, checked under SpecThreads *)

\* C23 as stated: the capture thread comes back to the head of its loop,
\* and so to its next capture attempt, only from the sleep of the frame
\* delay, whichever path the iteration took.
C23_Original ==
    [][(cpc' = "loop" /\ cpc \in {"capture", "gate", "put", "sleep"})
          => cpc = "sleep"]_vars

\* C24: neither AIEngine thread stays inside a queue operation for ever (the
\* OCR thread leaves frame_queue.get, the capture thread leaves put_latest),
\* and once AIEngine.stop() has cleared `running` each thread that was
\* started ends its loop, whatever the queues hold.
C24_ThreadsTerminate ==
    /\ (opc = "get") ~> (opc # "get")
    /\ (cpc = "put") ~> (cpc # "put")
    /\ (~running) ~> (cpc \in {"none", "exit"})
    /\ (~running) ~> (opc \in {"none", "exit", "crashed"})

\* both threads have ended after stop() while frame_queue was still full
C24_Witness ==
    /\ ~running
    /\ cpc = "exit"
    /\ opc = "exit"
    /\ Len(frame_queue) = Maxsize

\* C31: whatever start_capture and start_ocr calls one client thread makes,
\* one after the other, and whenever threads end in between, at most one
\* thread running _capture_loop and at most one running _ocr_loop is alive,
\* and it is the one the attribute of the AIEngine refers to.
C31_OneThreadEach ==
    /\ captureAlive <= 1
    /\ ocrAlive <= 1
    /\ captureAlive = 1 <=> cpc \notin {"none", "exit"}
    /\ ocrAlive = 1 <=> opc \notin {"none", "exit", "crashed"}

\* the first OCR thread died of an exception, start_ocr started a second
\* one, which runs next to the capture thread
C31_Witness ==
    /\ ocrRaised
    /\ opc = "get"
    /\ ocrAlive = 1
    /\ cpc = "sleep"
    /\ captureAlive = 1

----------------------------------------------------------------------------
(* Further claims about AIEngine.translate, checked under SpecTranslate *)

\* C29: a translate call that returns None leaves last_hash as it was, and
\* last_hash changes only when a call returns a result; at all times
\* last_hash is empty (no call has returned a result yet) or the trimmed,
\* lower-cased text of the most recent call that returned a result.
C29_HashFollowsResults ==
    /\ [][/\ (tpc = "running" /\ tpc' = "idle" /\ treturned' = NoText)
              => last_hash' = last_hash
          /\ last_hash' # last_hash
              => tpc = "running" /\ tpc' = "idle" /\ treturned' # NoText]_vars
    /\ [](last_hash = IF okArg = NoText THEN <<>>
                      ELSE LowerText(Strip(okArg)))

\* "ABC " was translated; a later call for "bcd" got nothing from the
\* translator and returned None with the hash of "ABC " still in place
C29_Witness ==
    /\ tpc = "idle"
    /\ okArg = <<"A", "B", "C", " ">>
    /\ last_hash = T_abc
    /\ targ = T_bcd
    /\ tcause = "failed"
    /\ treturned = NoText

----------------------------------------------------------------------------
(* Claims about the status of the previous phrase, checked under SpecStatus *)

\* C27: when a phrase is accepted, the previous phrase is reported
\* "Interrupted" exactly when the acceptance time is strictly before the
\* time recorded at the end of the previous phrase's cycle plus the duration
\* its speak call returned, and "Completed" otherwise; a previous cycle
\* that spoke nothing (duration 0) is reported "Completed".
C27_StatusOfPrevious ==
    spc # "idle" =>
        /\ prev_status \in {"Interrupted", "Completed"}
        /\ prev_status = "Interrupted"
               <=> now < recordedAt + last_phrase_duration
        /\ last_phrase_duration = 0 => prev_status = "Completed"

\* a phrase accepted one clock unit into a previous phrase two units long
C27_Witness ==
    /\ spc = "dispatch"
    /\ last_phrase_duration = 2
    /\ now = recordedAt + 1
    /\ prev_status = "Interrupted"

----------------------------------------------------------------------------
(* Claims about AudioPlayer, checked under SpecVoices *)

\* C30: a voice that char_map holds for a name stays the voice of that name
\* (the entry is never changed or removed, it is the first voice the name
\* was ever given), every speak call that synthesizes for a name that has a
\* voice uses that voice, and a speak call that returns early (no text, no
\* Russian letter) creates no entry.
C30_VoiceIsPermanent ==
    /\ [][/\ \A n \in CharNames :
                char_map[n] # NoVoice => char_map'[n] = char_map[n]
          /\ (speaker' # NoVoice /\ vname' \in CharNames)
                => speaker' = char_map'[vname']
          /\ speaker' = NoVoice => char_map' = char_map]_vars
    /\ [](\A n \in CharNames : char_map[n] = firstVoice[n])

\* Anna was given a female voice and Boris a male one; a later call for
\* Anna returned early and left both entries in place
C30_Witness ==
    /\ char_map["Anna"] = "baya"
    /\ char_map["Boris"] = "eugene"
    /\ vname = "Anna"
    /\ speaker_name = "Skipped (No RU)"

====
